---------------------------- MODULE Spec2Model ----------------------------
(***************************************************************************)
(* Model of package stringsort (src/mixed.go): mixed keys, their           *)
(* comparison, and the sort.Interface adapter ByMixedKey.                  *)
(*                                                                         *)
(* Representation.                                                         *)
(*   - A Go string is a sequence of byte codes (48 is '0', 97 is 'a').     *)
(*     Go indexes from 0; the model keeps the code's 0-based cursors and   *)
(*     reads the byte at cursor i with At(s, i).                           *)
(*   - A Go int is IntBits wide.  It is held as its two's-complement bit   *)
(*     pattern, a tuple of limbs of 16 bits each, least significant        *)
(*     first, so that the wrap-around of 10*n + d is computed exactly.     *)
(*   - An nspan is a record [run, n]; a MixedKey is a sequence of them.    *)
(*     A nil slice and an empty slice are both the empty sequence: the     *)
(*     code only ever takes len() of and appends to a key.                 *)
(***************************************************************************)
EXTENDS Integers, Sequences, FiniteSets, Bags, TLC

VARIABLES
    pc,      \* position of the caller: which call is made next
    args,    \* arguments of a direct call to ParseMixed / compareMixed
    ret,     \* value returned by the last call
    ss,      \* byMixedKey.ss: the slice being sorted
    keys,    \* byMixedKey.keys: the precomputed keys
    input,   \* the caller's copy of the slice before sorting
    si,      \* sort.Sort: outer cursor i of the insertion sort
    sj,      \* sort.Sort: inner cursor j of the insertion sort
    nparse,  \* number of ParseMixed calls made so far
    round,   \* number of sort.Sort calls the caller has begun
    first    \* result of the first sort.Sort, kept by the caller

vars == <<pc, args, ret, ss, keys, input, si, sj, nparse, round, first>>

---------------------------------------------------------------------------
(* Go's int                                                                *)

IntBits == 64

Base == 2^16

NLimbs == IntBits \div 16

\* int(k) for a small integer k of the model, as a bit pattern.
IntOf(k) ==
    LET mag == IF k >= 0 THEN k ELSE -k - 1
        low(l) == IF l = 1 THEN mag % Base
                  ELSE IF l = 2 THEN mag \div Base
                  ELSE 0
    IN  [l \in 1..NLimbs |-> IF k >= 0 THEN low(l) ELSE Base - 1 - low(l)]

\* Limbs l..NLimbs of m*n + carry, limb by limb; the carry out of the top
\* limb is dropped.
RECURSIVE MulAddFrom(_, _, _, _)
MulAddFrom(m, n, l, carry) ==
    IF l > NLimbs THEN <<>>
    ELSE <<(m * n[l] + carry) % Base>>
             \o MulAddFrom(m, n, l + 1, (m * n[l] + carry) \div Base)

\* (variant: a result past the largest int is clamped to it)
IntMulAddClamped(m, n, d) ==
    LET w == MulAddFrom(m, n, 1, d)
    IN  IF w[NLimbs] < n[NLimbs] \/ w[NLimbs] >= Base \div 2
        THEN [l \in 1..NLimbs |-> IF l = NLimbs THEN Base \div 2 - 1 ELSE Base - 1]
        ELSE w

\* m*n + d in int arithmetic (0 <= m, d < 16): Go's wrap-around on overflow.
IntMulAdd(m, n, d) == MulAddFrom(m, n, 1, d)

\* The top limb read as a signed number.
SignedTop(n) ==
    IF n[NLimbs] >= Base \div 2 THEN n[NLimbs] - Base ELSE n[NLimbs]

\* a < b on ints: signed comparison of the bit patterns.
RECURSIVE LimbsLess(_, _, _)
LimbsLess(a, b, l) ==
    IF l = 0 THEN FALSE
    ELSE IF a[l] # b[l] THEN a[l] < b[l]
    ELSE LimbsLess(a, b, l - 1)

IntLess(a, b) ==
    IF SignedTop(a) # SignedTop(b) THEN SignedTop(a) < SignedTop(b)
    ELSE LimbsLess(a, b, NLimbs - 1)

---------------------------------------------------------------------------
(* Go's strings                                                            *)

\* s[i], 0-based.
At(s, i) == s[i + 1]

\* s[lo:hi], 0-based, hi exclusive.
Slice(s, lo, hi) == SubSeq(s, lo + 1, hi)

\* a < b on strings: byte-wise lexicographic order.
RECURSIVE StrLessFrom(_, _, _)
StrLessFrom(a, b, k) ==
    IF k > Len(b) THEN FALSE
    ELSE IF k > Len(a) THEN TRUE
    ELSE IF a[k] # b[k] THEN a[k] < b[k]
    ELSE StrLessFrom(a, b, k + 1)

StrLess(a, b) == StrLessFrom(a, b, 1)

---------------------------------------------------------------------------
(* ParseMixed                                                              *)

Zero == 48

Nine == 57

\* the negation of  ch < '0' || ch > '9'
IsDigit(ch) == ~(ch < Zero \/ ch > Nine)

nspan(run, n) == [run |-> run, n |-> n]

\* The inner loop: consume digits until a non-digit or end-of-string.
RECURSIVE ConsumeDigits(_, _, _)
ConsumeDigits(s, i, n) ==
    IF i < Len(s) /\ IsDigit(At(s, i))
    THEN ConsumeDigits(s, i + 1, IntMulAdd(10, n, At(s, i) - Zero))
    ELSE [i |-> i, n |-> n]

\* (variant: the trailing run is appended even when it is empty)
TrailingRunAlways(s, i, end, out) ==
    IF end <= i THEN Append(out, nspan(Slice(s, end, i), IntOf(0))) ELSE out

\* (variant: a trailing run is marked as having no digits)
TrailingRunMarked(s, i, end, out) ==
    IF end < i THEN Append(out, nspan(Slice(s, end, i), IntOf(-1))) ELSE out

\* The trailing append after the outer loop.
TrailingRun(s, i, end, out) ==
    IF end < i THEN Append(out, nspan(Slice(s, end, i), IntOf(0))) ELSE out

\* The outer loop, from cursor i with run start end and the spans so far.
RECURSIVE ScanFrom(_, _, _, _)
ScanFrom(s, i, end, out) ==
    IF ~(i < Len(s)) THEN TrailingRun(s, i, end, out)
    ELSE IF ~IsDigit(At(s, i)) THEN ScanFrom(s, i + 1, end, out)
    ELSE LET d == ConsumeDigits(s, i + 1, IntOf(At(s, i) - Zero))
         IN  ScanFrom(s, d.i, d.i, Append(out, nspan(Slice(s, end, i), d.n)))

ParseMixed(s) == ScanFrom(s, 0, 0, <<>>)

---------------------------------------------------------------------------
(* compareInt, compareNspan, compareMixed                                  *)

compareInt(a, b) ==
    IF a = b THEN 0
    ELSE IF IntLess(a, b) THEN -1
    ELSE 1

\* (variant: spans with different runs always compare as less)
compareNspanNoGreater(a, b) ==
    IF a.run = b.run THEN compareInt(a.n, b.n) ELSE -1

\* (variant: the integers of the spans are not compared)
compareNspanRunOnly(a, b) ==
    IF a.run = b.run THEN 0
    ELSE IF StrLess(a.run, b.run) THEN -1
    ELSE 1

compareNspan(a, b) ==
    IF a.run = b.run THEN compareInt(a.n, b.n)
    ELSE IF StrLess(a.run, b.run) THEN -1
    ELSE 1

RECURSIVE compareFrom(_, _, _)
compareFrom(a, b, i) ==
    IF i < Len(a) /\ i < Len(b)
    THEN LET c == compareNspan(At(a, i), At(b, i))
         IN  IF c # 0 THEN c ELSE compareFrom(a, b, i + 1)
    ELSE compareInt(IntOf(Len(a)), IntOf(Len(b)))

\* (variant: the shorter key is less, whatever the spans hold)
compareMixedLenFirst(a, b) ==
    IF Len(a) # Len(b) THEN compareInt(IntOf(Len(a)), IntOf(Len(b)))
    ELSE compareFrom(a, b, 0)

compareMixed(a, b) == compareFrom(a, b, 0)

---------------------------------------------------------------------------
(* ByMixedKey and the sort.Interface methods of byMixedKey                 *)

\* The keys ByMixedKey computes for the slice strs, one ParseMixed each.
KeysOf(strs) == [k \in 1..Len(strs) |-> ParseMixed(strs[k])]

\* (variant: ties on key order are not broken)
LessByKeyOnly(i, j) == compareMixed(At(keys, i), At(keys, j)) < 0

\* (variant: equal elements count as less)
LessOrEqual(i, j) ==
    LET v == compareMixed(At(keys, i), At(keys, j))
    IN  IF v = 0 THEN ~StrLess(At(ss, j), At(ss, i)) ELSE v < 0

Less(i, j) ==
    LET v == compareMixed(At(keys, i), At(keys, j))
    IN  IF v = 0 THEN StrLess(At(ss, i), At(ss, j)) ELSE v < 0

\* (variant: the keys are permuted but their strings are not)
SwapKeysOnly(i, j) ==
    /\ ss' = ss
    /\ keys' = [keys EXCEPT ![i + 1] = At(keys, j), ![j + 1] = At(keys, i)]

\* (variant: the strings are permuted but their keys are not)
SwapStringsOnly(i, j) ==
    /\ ss' = [ss EXCEPT ![i + 1] = At(ss, j), ![j + 1] = At(ss, i)]
    /\ keys' = keys

Swap(i, j) ==
    /\ ss' = [ss EXCEPT ![i + 1] = At(ss, j), ![j + 1] = At(ss, i)]
    /\ keys' = [keys EXCEPT ![i + 1] = At(keys, j), ![j + 1] = At(keys, i)]

\* sorter := ByMixedKey(ss)
NewByMixedKey ==
    /\ pc = "new"
    /\ keys' = KeysOf(ss)
    /\ nparse' = nparse + Len(ss)
    /\ pc' = "ready"
    /\ UNCHANGED <<args, ret, ss, input, si, sj, round, first>>

---------------------------------------------------------------------------
(* Direct calls of ParseMixed                                              *)

MaxLen == 5

MaxRun == 20

\* Bytes on both sides of, and at the ends of, the digit range:
\* '/' '0' '1' '9' ':' 'a'.
Alphabet == {47, 48, 49, 57, 58, 97}

StringsOver(A, n) == UNION {[1..k -> A] : k \in 0..n}

RECURSIVE Rep(_, _)
Rep(ch, k) == IF k = 0 THEN <<>> ELSE <<ch>> \o Rep(ch, k - 1)

\* Digit runs at the edges of the int range: 2^63 - 1, 2^63, 2^64 - 1, 2^64.
EdgeRuns ==
    { <<57,50,50,51,51,55,50,48,51,54,56,53,52,55,55,53,56,48,55>>,
      <<57,50,50,51,51,55,50,48,51,54,56,53,52,55,55,53,56,48,56>>,
      <<49,56,52,52,54,55,52,52,48,55,51,55,48,57,53,53,49,54,49,53>>,
      <<49,56,52,52,54,55,52,52,48,55,51,55,48,57,53,53,49,54,49,54>> }

\* Long digit runs: a block of one digit followed by a block of another.
LongRuns ==
    { Rep(d[1], k[1]) \o Rep(d[2], k[2]) :
        d \in {48, 49, 57} \X {48, 49, 57},
        k \in {x \in (0..MaxRun) \X (0..MaxRun) : x[1] >= 1 /\ x[1] + x[2] <= MaxRun} }

\* A long digit run, alone or after the text "a".
WideStrings == {p \o r : p \in {<<>>, <<97>>}, r \in LongRuns \cup EdgeRuns}

Idle ==
    /\ ss = <<>> /\ keys = <<>> /\ input = <<>> /\ first = <<>>
    /\ si = 0 /\ sj = 0 /\ nparse = 0 /\ round = 0

InitParse ==
    /\ pc = "call"
    /\ args \in StringsOver(Alphabet, MaxLen)
    /\ ret = <<>>
    /\ Idle

InitWide ==
    /\ pc = "call"
    /\ args \in WideStrings
    /\ ret = <<>>
    /\ Idle

\* key := ParseMixed(s)
CallParseMixed ==
    /\ pc = "call"
    /\ ret' = ParseMixed(args)
    /\ nparse' = nparse + 1
    /\ pc' = "ret"
    /\ UNCHANGED <<args, ss, keys, input, si, sj, round, first>>

NextParse == CallParseMixed

SpecParse == InitParse /\ [][NextParse]_vars

SpecWide == InitWide /\ [][NextParse]_vars

---------------------------------------------------------------------------
(* C4: the key of a string, described by its maximal digit runs            *)

DigitCodes == {48, 49, 50, 51, 52, 53, 54, 55, 56, 57}

\* Positions (1-based) where a maximal digit run starts, and where one ends.
RunStarts(s) ==
    {k \in 1..Len(s) : s[k] \in DigitCodes /\ (k = 1 \/ s[k - 1] \notin DigitCodes)}

RunEnds(s) ==
    {k \in 1..Len(s) : s[k] \in DigitCodes /\ (k = Len(s) \/ s[k + 1] \notin DigitCodes)}

\* The m-th smallest element of a set of numbers.
NthOf(S, m) == CHOOSE x \in S : Cardinality({y \in S : y < x}) = m - 1

\* The base-10 value of a short digit string, as a number of the model.
RECURSIVE DecValue(_)
DecValue(d) ==
    IF d = <<>> THEN 0
    ELSE 10 * DecValue(SubSeq(d, 1, Len(d) - 1)) + (d[Len(d)] - 48)

ExpectedKey(s) ==
    LET r       == Cardinality(RunStarts(s))
        endOf(m) == IF m = 0 THEN 0 ELSE NthOf(RunEnds(s), m)
        spanAt(m) ==
            [run |-> SubSeq(s, endOf(m - 1) + 1, NthOf(RunStarts(s), m) - 1),
             n   |-> IntOf(DecValue(SubSeq(s, NthOf(RunStarts(s), m), endOf(m))))]
        body    == [m \in 1..r |-> spanAt(m)]
    IN  IF endOf(r) < Len(s)
        THEN Append(body, [run |-> SubSeq(s, endOf(r) + 1, Len(s)), n |-> IntOf(0)])
        ELSE body

\* C4: ParseMixed(s) is exactly one span per maximal digit run of s, in
\* left-to-right order, each holding the non-digit text since the previous
\* run and the run's base-10 value, followed by one span (trailing text, 0)
\* if and only if non-empty text remains after the last run.
C4_ParseIsRunDecomposition ==
    pc = "ret" => ret = ExpectedKey(args)

\* A string with text, a digit run, and trailing text: two spans, the
\* second a trailing one.
C4_Witness ==
    /\ pc = "ret"
    /\ Len(ret) = 2
    /\ ret[1].run # <<>> /\ ret[1].n = IntOf(19)
    /\ ret[2].run # <<>> /\ ret[2].n = IntOf(0)
    /\ args[Len(args)] \notin DigitCodes

---------------------------------------------------------------------------
(* C9: digit runs of any length; the value wraps at the int width          *)

\* A decimal numeral is a sequence of digits 0..9, most significant first.
Numeral(run) == [k \in 1..Len(run) |-> run[k] - 48]

\* Long division of a numeral by Base, digit by digit from position k with
\* remainder rem carried in: the quotient's digits, then the final remainder.
RECURSIVE DivFrom(_, _, _)
DivFrom(d, k, rem) ==
    IF k > Len(d) THEN <<rem>>
    ELSE <<(10 * rem + d[k]) \div Base>> \o DivFrom(d, k + 1, (10 * rem + d[k]) % Base)

\* The value of the numeral written in base Base: its lowest cnt limbs,
\* least significant first, and the numeral of what is left above them.
RECURSIVE InBase(_, _)
InBase(d, cnt) ==
    IF cnt = 0 THEN [limbs |-> <<>>, rest |-> d]
    ELSE LET q  == DivFrom(d, 1, 0)
             up == InBase(SubSeq(q, 1, Len(d)), cnt - 1)
         IN  [limbs |-> <<q[Len(d) + 1]>> \o up.limbs, rest |-> up.rest]

\* The value of the numeral modulo 2^IntBits, as an int bit pattern.
Wrapped(d) == InBase(d, NLimbs).limbs

IsZeroNumeral(d) == \A k \in 1..Len(d) : d[k] = 0

\* The value is below 2^(IntBits-1): it fits a signed int.
Fits(d) ==
    /\ IsZeroNumeral(InBase(d, NLimbs).rest)
    /\ InBase(d, NLimbs).limbs[NLimbs] < Base \div 2

\* Long division of a bit pattern by ten, from limb l down with remainder
\* rem carried in: the final remainder, then the quotient's limbs 1..l.
RECURSIVE TenthFrom(_, _, _)
TenthFrom(n, l, rem) ==
    IF l = 0 THEN <<rem>>
    ELSE Append(TenthFrom(n, l - 1, (rem * Base + n[l]) % 10),
                (rem * Base + n[l]) \div 10)

Tenth(n) == SubSeq(TenthFrom(n, NLimbs, 0), 2, NLimbs + 1)

TenthRem(n) == TenthFrom(n, NLimbs, 0)[1]

\* The decimal numeral, without leading zeros, of a non-negative int.
RECURSIVE ToNumeral(_)
ToNumeral(n) ==
    IF n = IntOf(0) THEN <<>> ELSE Append(ToNumeral(Tenth(n)), TenthRem(n))

RECURSIVE StripZeros(_)
StripZeros(d) ==
    IF d # <<>> /\ d[1] = 0 THEN StripZeros(SubSeq(d, 2, Len(d))) ELSE d

TextOf(s) == SelectSeq(s, LAMBDA ch : ch \notin DigitCodes)

RunOf(s) == SelectSeq(s, LAMBDA ch : ch \in DigitCodes)

\* C9: ParseMixed returns a key for every string, however long its digit
\* run.  The run is accumulated in fixed-width int arithmetic with no
\* overflow guard: a run whose base-10 value fits the int yields exactly
\* that value, and a longer one yields its value modulo 2^IntBits read as
\* signed (it is neither rejected nor clamped).
C9_DigitRunWraps ==
    pc = "ret" =>
        /\ Len(ret) = 1
        /\ ret[1].run = TextOf(args)
        /\ ret[1].n = Wrapped(Numeral(RunOf(args)))
        /\ Fits(Numeral(RunOf(args))) =>
               /\ SignedTop(ret[1].n) >= 0
               /\ ToNumeral(ret[1].n) = StripZeros(Numeral(RunOf(args)))

\* A run of twenty digits, past 2^64, has been parsed to a negative int.
C9_Witness ==
    /\ pc = "ret"
    /\ Len(RunOf(args)) >= 20
    /\ ~Fits(Numeral(RunOf(args)))
    /\ SignedTop(ret[1].n) < 0

---------------------------------------------------------------------------
(* sort.Sort(ByMixedKey(ss)), as TestByMixedKey calls it                   *)
(*                                                                         *)
(* sort.Sort reads the slice only through Len, Less and Swap.  For a slice *)
(* of at most 12 elements it is the library's insertion sort:              *)
(*     for i := 1; i < n; i++ {                                            *)
(*         for j := i; j > 0 && data.Less(j, j-1); j-- {                   *)
(*             data.Swap(j, j-1) } }                                       *)

MaxN == 3

\* "", "a", "a0", "a1", "a01", "a9", "a10", "9", "10", "a1a": the empty
\* string, strings with equal keys, and digit runs of different lengths.
Corpus ==
    { <<>>, <<97>>, <<97, 48>>, <<97, 49>>, <<97, 48, 49>>, <<97, 57>>,
      <<97, 49, 48>>, <<57>>, <<49, 48>>, <<97, 49, 97>> }

SlicesOver(C, n) == UNION {[1..k -> C] : k \in 0..n}

Init ==
    /\ pc = "new"
    /\ ss \in SlicesOver(Corpus, MaxN)
    /\ input = ss
    /\ keys = <<>> /\ first = <<>> /\ args = <<>> /\ ret = <<>>
    /\ si = 0 /\ sj = 0 /\ nparse = 0 /\ round = 1

\* sort.Sort(sorter): n := data.Len(); insertionSort(data, 0, n)
SortBegin ==
    /\ pc = "ready"
    /\ si' = 1
    /\ pc' = "outer"
    /\ UNCHANGED <<args, ret, ss, keys, input, sj, nparse, round, first>>

\* for i := 1; i < n; i++ { j := i ...
OuterNext ==
    /\ pc = "outer"
    /\ si < Len(ss)
    /\ sj' = si
    /\ pc' = "inner"
    /\ UNCHANGED <<args, ret, ss, keys, input, si, nparse, round, first>>

\* ... i < n fails: sort.Sort returns
OuterDone ==
    /\ pc = "outer"
    /\ ~(si < Len(ss))
    /\ pc' = "done"
    /\ UNCHANGED <<args, ret, ss, keys, input, si, sj, nparse, round, first>>

\* j > 0 && data.Less(j, j-1) holds: data.Swap(j, j-1); j--
InnerSwap ==
    /\ pc = "inner"
    /\ sj > 0 /\ Less(sj, sj - 1)
    /\ Swap(sj, sj - 1)
    /\ sj' = sj - 1
    /\ UNCHANGED <<pc, args, ret, input, si, nparse, round, first>>

\* j > 0 && data.Less(j, j-1) fails: i++
InnerExit ==
    /\ pc = "inner"
    /\ ~(sj > 0 /\ Less(sj, sj - 1))
    /\ si' = si + 1
    /\ pc' = "outer"
    /\ UNCHANGED <<args, ret, ss, keys, input, sj, nparse, round, first>>

\* The caller keeps the result and sorts the sorted slice once more.
SortAgain ==
    /\ pc = "done"
    /\ round = 1
    /\ first' = ss
    /\ round' = 2
    /\ pc' = "new"
    /\ UNCHANGED <<args, ret, ss, keys, input, si, sj, nparse>>

Next ==
    \/ NewByMixedKey
    \/ SortBegin
    \/ OuterNext
    \/ OuterDone
    \/ InnerSwap
    \/ InnerExit
    \/ SortAgain

Spec == Init /\ [][Next]_vars

---------------------------------------------------------------------------
(* C1, C2: the result of sort.Sort(ByMixedKey(ss))                         *)

Range(s) == {s[k] : k \in 1..Len(s)}

\* The multiset of a slice's elements.
BagOf(s) == [x \in Range(s) |-> Cardinality({k \in 1..Len(s) : s[k] = x})]

\* Adjacent elements are in non-decreasing mixed-key order, ties on the key
\* in non-decreasing byte-wise order.
InMixedOrder(q) ==
    \A k \in 1..(Len(q) - 1) :
        LET c == compareMixed(ParseMixed(q[k]), ParseMixed(q[k + 1]))
        IN  /\ c <= 0
            /\ c = 0 => ~StrLess(q[k + 1], q[k])

\* All arrangements of the elements of s.
Arrangements(s) == {q \in [1..Len(s) -> Range(s)] : BagOf(q) = BagOf(s)}

\* C1: after sort.Sort(ByMixedKey(ss)), for any input slice (empty, with
\* empty strings, with duplicates), ss holds a permutation of its original
\* contents in non-decreasing mixed-key order, ties on the key in
\* non-decreasing byte-wise order.
C1_SortedPermutation ==
    pc = "done" =>
        /\ Len(ss) = Len(input)
        /\ BagOf(ss) = BagOf(input)
        /\ InMixedOrder(ss)

\* A slice of three with a duplicate and the empty string has been sorted,
\* and the sort had to move elements.
C1_Witness ==
    /\ pc = "done"
    /\ Len(ss) = 3
    /\ ss # input
    /\ <<>> \in Range(ss)
    /\ Cardinality(Range(ss)) = 2

\* C2: the sorted result depends only on the multiset of the input: it is
\* the arrangement of the input that is in mixed-key order with the
\* byte-wise tie-break, whatever the initial arrangement was, and sorting
\* the sorted slice again leaves it as it is.
C2_ResultIsCanonical ==
    pc = "done" =>
        /\ \A q \in Arrangements(input) : InMixedOrder(q) => ss = q
        /\ round = 2 => ss = first

\* The second sort of a slice that was out of order, holding two distinct
\* strings with equal keys, has finished.
C2_Witness ==
    /\ pc = "done"
    /\ round = 2
    /\ input # first
    /\ Len(ss) = 3
    /\ \E k \in 1..2 : ss[k] # ss[k + 1] /\ ParseMixed(ss[k]) = ParseMixed(ss[k + 1])

---------------------------------------------------------------------------
(* Direct calls of Less and Swap on a sorter                               *)

MaxPairLen == 3

\* '0' '9' 'a'
PairAlphabet == {48, 57, 97}

\* "", "a", "a0", "a1", "a01", "9"
SmallCorpus == {<<>>, <<97>>, <<97, 48>>, <<97, 49>>, <<97, 48, 49>>, <<57>>}

\* "", "a", "a0", "9"
IfaceCorpus == {<<>>, <<97>>, <<97, 48>>, <<57>>}

Positions == 0..(Len(ss) - 1)

InitCalls(slices) ==
    /\ pc = "new"
    /\ ss \in slices
    /\ input = ss
    /\ keys = <<>> /\ first = <<>> /\ args = <<>> /\ ret = <<>>
    /\ si = 0 /\ sj = 0 /\ nparse = 0 /\ round = 0

InitLess == InitCalls(SlicesOver(SmallCorpus, MaxN))

InitPair == InitCalls([1..2 -> StringsOver(PairAlphabet, MaxPairLen)])

InitIface == InitCalls(SlicesOver(IfaceCorpus, MaxN))

\* v := sorter.Less(i, j); the caller notes the call and its result.
CallLess(i, j) ==
    /\ pc = "ready"
    /\ ret' = <<i, j, Less(i, j)>>
    /\ UNCHANGED <<pc, args, ss, keys, input, si, sj, nparse, round, first>>

\* v := sorter.Less(i, j); the caller notes the result only.
IfaceLess(i, j) ==
    /\ pc = "ready"
    /\ UNCHANGED <<pc, args, ss, keys, input, si, sj, nparse, round, first>>
    /\ ret' = <<Less(i, j)>>

\* sorter.Swap(i, j)
IfaceSwap(i, j) ==
    /\ pc = "ready"
    /\ Swap(i, j)
    /\ UNCHANGED <<pc, args, ret, input, si, sj, nparse, round, first>>

NextLess ==
    \/ NewByMixedKey
    \/ \E i \in Positions, j \in Positions : CallLess(i, j)

NextIface ==
    \/ NewByMixedKey
    \/ \E i \in Positions, j \in Positions : IfaceLess(i, j)
    \/ \E i \in Positions, j \in Positions : IfaceSwap(i, j)

SpecLess == InitLess /\ [][NextLess]_vars

SpecPair == InitPair /\ [][NextLess]_vars

SpecIface == InitIface /\ [][NextIface]_vars

---------------------------------------------------------------------------
(* C7: Less is the key order with the byte-wise tie-break, a strict total  *)
(* order on strings                                                        *)

\* C7: Less(i, j) is true iff compareMixed(keys[i], keys[j]) < 0, or it is 0
\* and ss[i] < ss[j] byte-wise; the relation is irreflexive and transitive,
\* and of two positions holding distinct strings exactly one is less than
\* the other, also when their keys are equal.
C7_LessIsStrictTotalOrder ==
    pc = "ready" =>
        /\ ret # <<>> =>
               LET c == compareMixed(At(keys, ret[1]), At(keys, ret[2]))
               IN  ret[3] = (c < 0 \/ (c = 0 /\ StrLess(At(ss, ret[1]), At(ss, ret[2]))))
        /\ \A i \in Positions : ~Less(i, i)
        /\ \A i \in Positions, j \in Positions, k \in Positions :
               Less(i, j) /\ Less(j, k) => Less(i, k)
        /\ \A i \in Positions, j \in Positions :
               At(ss, i) # At(ss, j) => (Less(i, j) # Less(j, i))

\* Less was called on two distinct strings with equal keys, in a slice of
\* three distinct strings, and returned true.
C7_Witness ==
    /\ pc = "ready"
    /\ Len(ss) = 3
    /\ Cardinality(Range(ss)) = 3
    /\ ret # <<>>
    /\ ret[3] = TRUE
    /\ At(ss, ret[1]) # At(ss, ret[2])
    /\ At(keys, ret[1]) = At(keys, ret[2])

---------------------------------------------------------------------------
(* C8: every key stays with its string                                     *)

\* keys has the length of ss and holds, at each position, the key of the
\* string at that position.
Paired(strs, ks) ==
    /\ Len(ks) = Len(strs)
    /\ \A k \in 1..Len(strs) : ks[k] = ParseMixed(strs[k])

\* C8: ByMixedKey computes keys[k] = ParseMixed(ss[k]) for every position at
\* construction, with one ParseMixed call per string and before any Less
\* or Swap; after any sequence of Swap(i, j) and Less(i, j) calls (i = j
\* included) keys still has the length of ss and keys[k] is the key of
\* ss[k], and no key has been parsed again.  Swap exchanges exactly the
\* positions i and j of both slices; Less changes neither slice.
C8_KeysStayPaired ==
    /\ [](pc = "ready" => (Paired(ss, keys) /\ nparse = Len(ss)))
    /\ [][ /\ NewByMixedKey => (ss' = ss /\ nparse' = Len(ss))
           /\ pc = "new" => (pc' = "ready" /\ UNCHANGED ret)
           /\ \A i \in Positions, j \in Positions :
                  /\ (<<ss, keys>>' # <<ss, keys>> /\ IfaceSwap(i, j)) =>
                         /\ At(ss', i) = At(ss, j) /\ At(ss', j) = At(ss, i)
                         /\ At(keys', i) = At(keys, j) /\ At(keys', j) = At(keys, i)
                         /\ \A k \in Positions \ {i, j} :
                                At(ss', k) = At(ss, k) /\ At(keys', k) = At(keys, k)
                  /\ (ret' # ret /\ IfaceLess(i, j)) => UNCHANGED <<ss, keys>>
         ]_vars

\* After a Less call, three distinct strings stand in another arrangement
\* than at construction.
C8_Witness ==
    /\ pc = "ready"
    /\ Len(ss) = 3
    /\ Cardinality(Range(ss)) = 3
    /\ ss[1] # input[1] /\ ss[2] # input[2] /\ ss[3] # input[3]
    /\ ret # <<>>

---------------------------------------------------------------------------
(* C3, C10: what the order of two strings does and does not see            *)

AllDigits(d) == d # <<>> /\ \A k \in 1..Len(d) : d[k] \in DigitCodes

\* s = p + d1 + q and t = p + d2 + q for some p not ending in a digit, q
\* not starting with one and digit strings d1, d2 with d1's value below
\* d2's; a is the length of p and b the length of q.
SmallerRunAt(s, t, a, b) ==
    /\ a + b < Len(s) /\ a + b < Len(t)
    /\ SubSeq(s, 1, a) = SubSeq(t, 1, a)
    /\ SubSeq(s, Len(s) - b + 1, Len(s)) = SubSeq(t, Len(t) - b + 1, Len(t))
    /\ a > 0 => s[a] \notin DigitCodes
    /\ b > 0 => s[Len(s) - b + 1] \notin DigitCodes
    /\ AllDigits(SubSeq(s, a + 1, Len(s) - b))
    /\ AllDigits(SubSeq(t, a + 1, Len(t) - b))
    /\ DecValue(SubSeq(s, a + 1, Len(s) - b)) < DecValue(SubSeq(t, a + 1, Len(t) - b))

SmallerRun(s, t) ==
    \E a \in 0..Len(s), b \in 0..Len(s) : SmallerRunAt(s, t, a, b)

\* C3: two strings that differ only in one maximal digit run are ordered by
\* the values of the runs: the string whose run has the smaller value is
\* Less than the other, also where byte-wise order puts them the other way
\* round.
C3_DigitRunsOrderedByValue ==
    (pc = "ready" /\ ret # <<>>) =>
        (SmallerRun(At(ss, ret[1]), At(ss, ret[2])) => ret[3] = TRUE)

\* Less was called on "9a" and "90a" (in the model's bytes), which
\* byte-wise order puts the other way round.
C3_Witness ==
    /\ pc = "ready"
    /\ ret # <<>>
    /\ SmallerRun(At(ss, ret[1]), At(ss, ret[2]))
    /\ StrLess(At(ss, ret[2]), At(ss, ret[1]))
    /\ Len(At(ss, ret[1])) < Len(At(ss, ret[2]))
    /\ At(ss, ret[1])[Len(At(ss, ret[1]))] \notin DigitCodes
    /\ ret[3] = TRUE

\* t is s with one more '0' in front of a maximal digit run, or s is
\* non-empty, ends in a non-digit, and t is s followed by "0".
ZeroAdded(s, t) ==
    \/ \E k \in RunStarts(s) : t = SubSeq(s, 1, k - 1) \o <<48>> \o SubSeq(s, k, Len(s))
    \/ s # <<>> /\ s[Len(s)] \notin DigitCodes /\ t = s \o <<48>>

\* C10: a key records neither leading zeros nor whether its trailing span
\* had a digit run: a string ending in a non-digit has the key of the same
\* string followed by "0", and a '0' added in front of a digit run leaves
\* the key unchanged; compareMixed of the two keys is 0 and Less orders
\* the two strings by the byte-wise order of the strings alone.
C10_ZerosNotRecorded ==
    pc = "ready" =>
        \A i \in Positions, j \in Positions :
            (ZeroAdded(At(ss, i), At(ss, j)) \/ ZeroAdded(At(ss, j), At(ss, i))) =>
                /\ At(keys, i) = At(keys, j)
                /\ compareMixed(At(keys, i), At(keys, j)) = 0
                /\ (ret # <<>> /\ ret[1] = i /\ ret[2] = j) =>
                       ret[3] = StrLess(At(ss, i), At(ss, j))

\* Less was called on a string ending in text and the same string followed
\* by "0", and on a digit run and the same run after one more '0'.
C10_Witness ==
    /\ pc = "ready"
    /\ ret = <<0, 1, TRUE>>
    /\ At(ss, 0) # <<>>
    /\ At(ss, 0)[Len(At(ss, 0))] \notin DigitCodes
    /\ At(ss, 1) = At(ss, 0) \o <<48>>
    /\ RunStarts(At(ss, 0)) # {}

---------------------------------------------------------------------------
(* Direct calls of compareMixed, as TestCompareMixed makes them            *)

MaxSpans == 2

\* ("", 1), ("a", 0) and ("a", -1): a span of leading digits, a trailing
\* text-only span, and a span whose digit run wrapped around to -1.
SpanSet ==
    {nspan(<<>>, IntOf(1)), nspan(<<97>>, IntOf(0)), nspan(<<97>>, IntOf(-1))}

KeySet == UNION {[1..k -> SpanSet] : k \in 0..MaxSpans}

InitCompare ==
    /\ pc = "call"
    /\ args \in KeySet \X KeySet \X KeySet
    /\ ret = <<>>
    /\ Idle

\* got[x][y] := compareMixed(key x, key y), for each pair of the three keys
CallCompareMixed ==
    /\ pc = "call"
    /\ ret' = [x \in 1..3 |-> [y \in 1..3 |-> compareMixed(args[x], args[y])]]
    /\ pc' = "ret"
    /\ UNCHANGED <<args, ss, keys, input, si, sj, nparse, round, first>>

NextCompare == CallCompareMixed

SpecCompare == InitCompare /\ [][NextCompare]_vars

---------------------------------------------------------------------------
(* C5, C6: compareMixed is the span-wise lexicographic comparison          *)

Sign(x) == IF x < 0 THEN -1 ELSE IF x > 0 THEN 1 ELSE 0

\* a sorts before b in byte-wise order: a is a proper prefix of b, or at the
\* first position where they differ a has the smaller byte.
BytewiseBefore(a, b) ==
    \E k \in 1..Len(b) :
        /\ k <= Len(a) + 1
        /\ SubSeq(a, 1, k - 1) = SubSeq(b, 1, k - 1)
        /\ k = Len(a) + 1 \/ a[k] < b[k]

\* The number a small int bit pattern stands for.
NumberOf(n) == CHOOSE k \in -2..2 : IntOf(k) = n

\* The comparison the claim describes.
SpanwiseCompare(a, b) ==
    LET both  == 1..(IF Len(a) < Len(b) THEN Len(a) ELSE Len(b))
        diffs == {i \in both : a[i] # b[i]}
        i     == CHOOSE d \in diffs : \A e \in diffs : d <= e
    IN  IF diffs = {} THEN Sign(Len(a) - Len(b))
        ELSE IF a[i].run # b[i].run
             THEN (IF BytewiseBefore(a[i].run, b[i].run) THEN -1 ELSE 1)
        ELSE Sign(NumberOf(a[i].n) - NumberOf(b[i].n))

\* C5: compareMixed(a, b) is one of -1, 0, +1 and is the span-wise
\* lexicographic comparison: at the first index where the spans differ, the
\* sign of the byte-wise comparison of the text runs if they differ,
\* otherwise of the numeric comparison of the integers; with all
\* overlapping spans equal, the sign of len(a) - len(b), so a proper prefix
\* is less and the empty key is less than any other.
C5_CompareIsSpanwise ==
    pc = "ret" =>
        \A x \in 1..3, y \in 1..3 :
            /\ ret[x][y] \in {-1, 0, 1}
            /\ ret[x][y] = SpanwiseCompare(args[x], args[y])

\* compareMixed decided on differing text runs against the order of the
\* integers, on a proper prefix, and on the empty key.
C5_Witness ==
    /\ pc = "ret"
    /\ args[1] = <<>> /\ Len(args[2]) = 1 /\ Len(args[3]) = 2
    /\ ret[1][2] = -1 /\ ret[1][3] = -1
    /\ args[2][1].run # args[3][1].run
    /\ ret[2][3] = 1
    /\ IntLess(args[2][1].n, args[3][1].n)

\* C6: for all keys a, b, c: compareMixed(a, a) = 0; compareMixed(a, b) =
\* -compareMixed(b, a); and compareMixed(a, b) < 0 and compareMixed(b, c) < 0
\* give compareMixed(a, c) < 0, also for keys of different lengths and
\* where one is a prefix of another.
C6_CompareIsOrdering ==
    pc = "ret" =>
        /\ \A x \in 1..3 : ret[x][x] = 0
        /\ \A x \in 1..3, y \in 1..3 : ret[x][y] = -ret[y][x]
        /\ \A x \in 1..3, y \in 1..3, z \in 1..3 :
               (ret[x][y] < 0 /\ ret[y][z] < 0) => ret[x][z] < 0

\* Three keys of different lengths in increasing order, the second a proper
\* prefix of the third, the first differing from both in its integer.
C6_Witness ==
    /\ pc = "ret"
    /\ ret[1][2] < 0 /\ ret[2][3] < 0 /\ ret[1][3] < 0
    /\ Len(args[1]) = 2 /\ Len(args[2]) = 1 /\ Len(args[3]) = 2
    /\ args[2][1] = args[3][1]
    /\ args[1][1].run = args[2][1].run
    /\ SignedTop(args[1][1].n) < 0

=============================================================================
